---- MODULE Spec2Model ----
(***************************************************************************)
(* State-machine model of the TimeSeriesChart component of                 *)
(* tangyoha/timewave-visual.  The repository holds several near-identical  *)
(* copies of the component; three of them differ in the parts modelled     *)
(* here and are told apart by the variable `variant`:                      *)
(*   "A"  src/src/components/time-series-chart/utils/data-utils.ts:589     *)
(*        (zoom/pan/brush kept exclusive by an effect, crosshairMode,      *)
(*        selectedArea + handleBrushApply, yAxisScale)                     *)
(*   "C"  src/unnamed/part_001:842 (zoom/pan, brushSelected +              *)
(*        handleApplyBrushSelection)                                       *)
(*   "D"  src/unnamed/part_002:222 (zoom/pan/brush/crosshairActive kept    *)
(*        exclusive by the click handlers, handleBrushEnd, pixel drag)     *)
(* The window, refresh, timer, load and series code is the same text in    *)
(* all copies and is modelled once.                                        *)
(*                                                                         *)
(* React semantics used: a handler's setState calls are batched and        *)
(* committed together; effects whose dependencies changed run after the    *)
(* commit and before the next event is handled; a useCallback with an      *)
(* empty dependency list keeps the closure of the first render.            *)
(***************************************************************************)
EXTENDS Integers, Sequences, FiniteSets, TLC

(* ------------------------------ bounds -------------------------------- *)
MaxTicks == 2
MaxTimerId == 3
MaxInFlight == 2

(* ----------------------- instants and durations ------------------------ *)
MinuteMs == 60000
HourMs == 3600000
DayMs == 86400000
\* the instant of construction and the step of the modelled clock
T0 == 10000000
TickMs == 60000
\* (NaN) result of parseInt on a string without leading digits, and the
\* time value of an Invalid Date
NaN == -1

Digits == <<"0", "1", "2", "3", "4", "5", "6", "7", "8", "9">>

DigitVal(c) == CHOOSE i \in 0..9 : Digits[i + 1] = c

IsDigit(c) == \E i \in 1..10 : Digits[i] = c

\* String.prototype.endsWith for a one-character suffix
EndsWith(s, c) == Len(s) > 0 /\ s[Len(s)] = c

\* String.prototype.replace(c, ''): removes the FIRST occurrence of c
RECURSIVE RemoveFirst(_, _)
RemoveFirst(s, c) ==
  IF s = << >> THEN << >>
  ELSE IF Head(s) = c THEN Tail(s)
  ELSE <<Head(s)>> \o RemoveFirst(Tail(s), c)

\* parseInt: the value of the longest prefix of digits, NaN if there is none
RECURSIVE ParseDigits(_, _)
ParseDigits(s, acc) ==
  IF s # << >> /\ IsDigit(Head(s))
  THEN ParseDigits(Tail(s), acc * 10 + DigitVal(Head(s)))
  ELSE acc

ParseInt(s) ==
  IF s # << >> /\ IsDigit(Head(s)) THEN ParseDigits(s, 0) ELSE NaN

\* date-fns subMinutes/subHours/subDays: an Invalid Date for a NaN amount
SubMs(instant, amount, unit) ==
  IF amount = NaN THEN NaN ELSE instant - amount * unit

\* mutant of getTimeRangeFromValue: the day unit is not recognised
getTimeRangeFromValueNoDays(value, clock) ==
  LET start ==
        IF EndsWith(value, "m")
          THEN SubMs(clock, ParseInt(RemoveFirst(value, "m")), MinuteMs)
        ELSE IF EndsWith(value, "h")
          THEN SubMs(clock, ParseInt(RemoveFirst(value, "h")), HourMs)
        ELSE SubMs(clock, 1, HourMs)
  IN <<start, clock>>

\* getTimeRangeFromValue(value) evaluated at clock reading `clock`
getTimeRangeFromValue(value, clock) ==
  LET start ==
        IF EndsWith(value, "m")
          THEN SubMs(clock, ParseInt(RemoveFirst(value, "m")), MinuteMs)
        ELSE IF EndsWith(value, "h")
          THEN SubMs(clock, ParseInt(RemoveFirst(value, "h")), HourMs)
        ELSE IF EndsWith(value, "d")
          THEN SubMs(clock, ParseInt(RemoveFirst(value, "d")), DayMs)
        ELSE SubMs(clock, 1, HourMs)
  IN <<start, clock>>

\* range tokens as character sequences
Custom == <<"c", "u", "s", "t", "o", "m">>
Tok5m == <<"5", "m">>
Tok1h == <<"1", "h">>
\* the entries of TIME_RANGES offered by the modelled menu
TIME_RANGES == {Tok5m, Tok1h}
\* the entries of REFRESH_INTERVALS offered by the modelled menu (seconds)
REFRESH_INTERVALS == {0, 5, 10}

(* ------------------------------ series -------------------------------- *)
Pt(t, v) == [timestamp |-> t, value |-> v]

Ser(id, pts) == [id |-> id, visible |-> TRUE, data |-> pts]

\* results the external data source may deliver
LoadA ==
  << Ser("s1", <<Pt(T0 - 3000, 10), Pt(T0 - 2000, 20), Pt(T0 - 1000, 30)>>),
     Ser("s2", <<Pt(T0 - 3000, 5), Pt(T0 - 1000, 15)>>) >>

LoadB == << Ser("s1", <<Pt(T0 - 2000, 7)>>) >>

Loads == {LoadA, LoadB}

\* values of the initialData prop (<< >> stands for an absent prop)
InitialDatas == {<< >>, LoadA}

Variants == {"A", "C", "D"}

(* ---------------------------- query input ------------------------------ *)
\* how many onQuerySubmit calls are followed
MaxSubmits == 2

\* the characters String.prototype.trim removes that the input is tried with
Whitespace == {" ", "\t"}

\* String.prototype.trim
Trim(s) ==
  LET kept == {i \in 1..Len(s) : s[i] \notin Whitespace}
  IN IF kept = {} THEN << >>
     ELSE SubSeq(s, CHOOSE i \in kept : \A j \in kept : i <= j,
                    CHOOSE i \in kept : \A j \in kept : i >= j)

\* mutant of IsSubmittable: the query is tested without trimming it
IsSubmittableUntrimmed(q) == q # << >>

\* if (query.trim()): the empty string is falsy
IsSubmittable(q) == Trim(q) # << >>

\* SAMPLE_QUERY_HISTORY, each of its four queries stood for by a short one
SAMPLE_QUERY_HISTORY == << <<"h">>, <<"r">>, <<"s">>, <<"m">> >>

\* the texts the input is set to: empty, blank, padded, new, and one that
\* is in the history already
Queries ==
  { << >>, <<" ">>, <<"\t", " ">>, <<"u", "p">>, <<" ", "u", "p">>,
    <<"c", "p", "u">>, <<"m">> }

\* addToQueryHistory(newQuery): no duplicates, the new query first, then the
\* first nine of the old ones
addToQueryHistory(history, newQuery) ==
  IF ~\E k \in 1..Len(history) : history[k] = newQuery
    THEN <<newQuery>> \o SubSeq(history, 1, IF Len(history) < 9 THEN Len(history) ELSE 9)
    ELSE history

VARIABLES
  variant,          \* which copy of the component is mounted
  mounted,          \* the chart instance has not been torn down
  now,              \* the clock (new Date())
  initialTimeRange, \* prop; also the timeRange seen by first-render closures
  hasInitialData,   \* the initialData prop was supplied
  timeRange, startTime, endTime,
  refreshInterval, refreshTimerRef,
  timers,           \* active window.setInterval timers: [id, period (ms)]
  nextTimerId,      \* the id the next window.setInterval call returns
  isRefreshing,
  inflight,         \* pending setTimeout load completions, oldest first
  loadIds,          \* the setTimeout handle of each pending load
  triggersPending,  \* reload triggers not yet followed by their replacement
  series, chartData,
  zoomMode, panMode, brushMode,
  crosshair,        \* crosshairMode (A) / crosshairActive (D)
  interactionModeRef,
  selectedArea,     \* A: [start, end], -1 for undefined
  brushSelected,    \* C: << >> for null, else <<startIndex, endIndex>>
  dragStartRef, zoomArea, \* D: pixel drag, -1 for null
  selectionStart, selectionEnd, \* C: drag timestamps (ms), -1 for null
  isSelecting,      \* C: a drag selection is in progress
  yAxisScale,       \* A
  query,            \* the text of the query input
  queryHistory,     \* QueryInput: the queries submitted, latest first
  submitted,        \* how often QueryInput has called onQuerySubmit
  csvContent,       \* the text of the last CSV file written, as lines of cells
  pendingEffects,   \* effects scheduled by the last commit
  emitted,          \* onTimeRangeChange calls made by the last event's
                    \* handler and the effects that followed it
  lastOp            \* the last event handled (and what it found)

wvars == <<timeRange, startTime, endTime>>
tvars == <<refreshInterval, refreshTimerRef, timers, nextTimerId>>
lvars == <<isRefreshing, inflight, loadIds, triggersPending>>
svars == <<series, chartData>>
mvars == <<zoomMode, panMode, brushMode, crosshair, interactionModeRef>>
dvars == <<selectionStart, selectionEnd, isSelecting>>
bvars == <<selectedArea, brushSelected, dragStartRef, zoomArea, dvars>>
\* the props, the mount flag, the query input and the exported file, which
\* the handlers of the chart body leave alone
cvars == <<variant, mounted, initialTimeRange, hasInitialData,
           query, queryHistory, submitted, csvContent>>

vars == <<variant, mounted, now, initialTimeRange, hasInitialData,
          timeRange, startTime, endTime,
          refreshInterval, refreshTimerRef, timers, nextTimerId,
          isRefreshing, inflight, loadIds, triggersPending, series, chartData,
          zoomMode, panMode, brushMode, crosshair, interactionModeRef,
          selectedArea, brushSelected, dragStartRef, zoomArea,
          selectionStart, selectionEnd, isSelecting, yAxisScale,
          query, queryHistory, submitted, csvContent,
          pendingEffects, emitted, lastOp>>

NoArea == [start |-> -1, end |-> -1]
NoZoomArea == [x1 |-> -1, x2 |-> -1]

\* the state after the first render (useState/useRef initial values) of a
\* copy in vs, with initialTimeRange in ranges and initialData in datas
InitFrom(vs, ranges, datas) ==
  /\ variant \in vs
  /\ mounted = TRUE
  /\ now = T0
  /\ initialTimeRange \in ranges
  /\ timeRange = initialTimeRange
  /\ startTime = T0 - 3600000
  /\ endTime = T0
  /\ refreshInterval = 0
  /\ refreshTimerRef = 0
  /\ timers = {}
  /\ nextTimerId = 1
  /\ isRefreshing = FALSE
  /\ inflight = << >>
  /\ loadIds = << >>
  /\ triggersPending = 0
  /\ query = << >>
  /\ queryHistory = SAMPLE_QUERY_HISTORY
  /\ submitted = 0
  /\ csvContent = << >>
  /\ series \in datas
  /\ hasInitialData = (series # << >>)
  /\ chartData = << >>
  /\ zoomMode = FALSE
  /\ panMode = FALSE
  /\ brushMode = FALSE
  /\ crosshair = (variant = "A")
  /\ interactionModeRef = "null"
  /\ selectedArea = NoArea
  /\ brushSelected = << >>
  /\ dragStartRef = -1
  /\ zoomArea = NoZoomArea
  /\ selectionStart = -1
  /\ selectionEnd = -1
  /\ isSelecting = FALSE
  /\ yAxisScale = 100
  /\ pendingEffects = {"align", "mount", "mode"}
  /\ emitted = << >>
  /\ lastOp = "init"

Init == InitFrom(Variants, TIME_RANGES, InitialDatas)

\* a handler can run: the instance is mounted and the effects of the last
\* commit have been flushed
Idle == mounted /\ pendingEffects = {}

(* --------------------------- alignment effect -------------------------- *)
EmptyRow(t) == [timestamp |-> t, vals |-> << >>]

\* mutant of SetValue: the first point of a series at a timestamp wins
SetValueKeepFirst(entry, id, value) ==
  [entry EXCEPT !.vals = entry.vals @@ (id :> value)]

\* entry[s.id] = point.value
SetValue(entry, id, value) ==
  [entry EXCEPT !.vals = (id :> value) @@ entry.vals]

\* s.data.forEach(point => ...): upsert the row of every point of one series
RECURSIVE UpsertPoints(_, _, _)
UpsertPoints(timestampMap, id, pts) ==
  IF pts = << >> THEN timestampMap
  ELSE LET point == Head(pts)
           t == point.timestamp
           entry == IF t \in DOMAIN timestampMap
                      THEN timestampMap[t] ELSE EmptyRow(t)
           entry2 == SetValue(entry, id, point.value)
       IN UpsertPoints((t :> entry2) @@ timestampMap, id, Tail(pts))

\* visibleSeries.forEach(s => ...)
RECURSIVE UpsertSeries(_, _)
UpsertSeries(timestampMap, ss) ==
  IF ss = << >> THEN timestampMap
  ELSE UpsertSeries(UpsertPoints(timestampMap, Head(ss).id, Head(ss).data),
                    Tail(ss))

\* .sort((a, b) => a.timestamp.getTime() - b.timestamp.getTime()) on keys
RECURSIVE SortAsc(_)
SortAsc(S) ==
  IF S = {} THEN << >>
  ELSE LET m == CHOOSE x \in S : \A y \in S : x <= y
       IN <<m>> \o SortAsc(S \ {m})

\* mutant of VisibleSeries: hidden series are aligned too
VisibleSeriesAll(ss) == ss

\* series.filter(s => s.visible !== false)
VisibleSeries(ss) == SelectSeq(ss, LAMBDA s : s.visible)

\* mutant of AlignSeries: the rows come out latest first
AlignSeriesLatestFirst(ss) ==
  IF Len(ss) > 0
  THEN LET timestampMap == UpsertSeries(<< >>, VisibleSeries(ss))
           keys == SortAsc(DOMAIN timestampMap)
       IN [i \in 1..Len(keys) |-> timestampMap[keys[Len(keys) + 1 - i]]]
  ELSE << >>

\* the body of the alignment effect: the value given to setChartData
AlignSeries(ss) ==
  IF Len(ss) > 0
  THEN LET timestampMap == UpsertSeries(<< >>, VisibleSeries(ss))
           keys == SortAsc(DOMAIN timestampMap)
       IN [i \in 1..Len(keys) |-> timestampMap[keys[i]]]
  ELSE << >>

\* Math.min(...values), Math.max(...values) over the points of one series
SeriesMin(s) ==
  CHOOSE v \in {s.data[k].value : k \in 1..Len(s.data)} :
    \A k \in 1..Len(s.data) : v <= s.data[k].value

SeriesMax(s) ==
  CHOOSE v \in {s.data[k].value : k \in 1..Len(s.data)} :
    \A k \in 1..Len(s.data) : v >= s.data[k].value

\* seriesMinMax[seriesId]: the entry of the last visible series with that id
MinMaxOf(vis, id) ==
  LET k == CHOOSE j \in 1..Len(vis) :
             vis[j].id = id /\ \A l \in (j + 1)..Len(vis) : vis[l].id # id
  IN vis[k]

\* variant D: every row also gets `${seriesId}_min` / `${seriesId}_max` for
\* the series it holds a value of
AddMinMax(rows, vis) ==
  [i \in 1..Len(rows) |->
     [timestamp |-> rows[i].timestamp,
      vals |-> rows[i].vals,
      min |-> [id \in DOMAIN rows[i].vals |-> SeriesMin(MinMaxOf(vis, id))],
      max |-> [id \in DOMAIN rows[i].vals |-> SeriesMax(MinMaxOf(vis, id))]]]

\* the value the alignment effect of the mounted copy gives to setChartData
AlignEffect(ss) ==
  IF variant = "D"
    THEN AddMinMax(AlignSeries(ss), VisibleSeries(ss))
    ELSE AlignSeries(ss)

(* ------------------------ window and refresh --------------------------- *)
\* refreshData as created by the render whose timeRange is closureRange:
\* the window part (setStartTime/setEndTime/onTimeRangeChange)
RefreshWindow(closureRange) ==
  IF closureRange # Custom
  THEN LET newStart == getTimeRangeFromValue(closureRange, now)[1]
       IN /\ startTime' = newStart
          /\ endTime' = now
          /\ emitted' = << <<newStart, now>> >>
  ELSE /\ UNCHANGED <<startTime, endTime>>
       /\ emitted' = << >>

\* a trigger that joins a load already in flight instead of starting its own
StartLoadCoalesced(q, kind) == IF q # << >> THEN q ELSE Append(q, kind)

\* setTimeout(callback, 500 | 700): every call schedules its own completion
StartLoad(q, kind) == Append(q, kind)

\* the handle setTimeout returns; a handle is reused once its load completed
FreeId ==
  CHOOSE h \in 1..MaxInFlight : \A k \in 1..Len(loadIds) : loadIds[k] # h

\* the bookkeeping of one reload trigger
TriggerLoad(kind) ==
  /\ Len(inflight) < MaxInFlight
  /\ inflight' = StartLoad(inflight, kind)
  /\ loadIds' = IF Len(inflight') > Len(inflight)
                  THEN Append(loadIds, FreeId) ELSE loadIds
  /\ triggersPending' = triggersPending + 1

\* refreshData: setIsRefreshing(true), the window, and the setTimeout(500)
refreshData(closureRange) ==
  /\ TriggerLoad("refresh")
  /\ isRefreshing' = TRUE
  /\ RefreshWindow(closureRange)
  /\ UNCHANGED timeRange

\* mutant of CustomWindow: the window is stored without telling the host
CustomWindowSilent(start, end) ==
  /\ startTime' = start
  /\ endTime' = end
  /\ timeRange' = Custom
  /\ emitted' = << >>

\* handleCustomTimeRangeChange(start, end): the window part
CustomWindow(start, end) ==
  /\ startTime' = start
  /\ endTime' = end
  /\ timeRange' = Custom
  /\ emitted' = << <<start, end>> >>

(* ------------------------------ effects -------------------------------- *)
\* the mode-exclusion effect of variant A: the committed flags after it
ModeEffectFlags ==
  IF zoomMode THEN [zoom |-> zoomMode, pan |-> FALSE, brush |-> FALSE,
                    ref |-> "zoom"]
  ELSE IF panMode THEN [zoom |-> FALSE, pan |-> panMode, brush |-> FALSE,
                        ref |-> "pan"]
  ELSE IF brushMode THEN [zoom |-> FALSE, pan |-> FALSE, brush |-> brushMode,
                          ref |-> "brush"]
  ELSE [zoom |-> zoomMode, pan |-> panMode, brush |-> brushMode,
        ref |-> "null"]

\* the effects a commit schedules when zoomMode/panMode/brushMode changed
ModeDeps == IF variant = "A" THEN {"mode"} ELSE {}

\* React runs the scheduled effects of one commit in source order: the
\* alignment effect, the initial-load effect, the mode-exclusion effect
FlushEffects ==
  /\ mounted
  /\ pendingEffects # {}
  /\ chartData' = IF "align" \in pendingEffects
                    THEN AlignEffect(series) ELSE chartData
  /\ IF "mount" \in pendingEffects /\ ~hasInitialData /\ Len(series) = 0
       THEN refreshData(initialTimeRange)
       ELSE UNCHANGED <<wvars, lvars, emitted>>
  /\ IF "mode" \in pendingEffects /\ variant = "A"
       THEN /\ zoomMode' = ModeEffectFlags.zoom
            /\ panMode' = ModeEffectFlags.pan
            /\ brushMode' = ModeEffectFlags.brush
            /\ interactionModeRef' = ModeEffectFlags.ref
            /\ pendingEffects' =
                 IF <<zoomMode', panMode', brushMode'>>
                      # <<zoomMode, panMode, brushMode>>
                   THEN {"mode"} ELSE {}
       ELSE /\ UNCHANGED <<zoomMode, panMode, brushMode, interactionModeRef>>
            /\ pendingEffects' = {}
  /\ UNCHANGED <<cvars, now, tvars, series, crosshair, bvars, yAxisScale,
                 lastOp>>

(* ------------------------------ handlers ------------------------------- *)
\* the chart body and its toolbar are rendered (not the empty-state card)
Rendered == Idle /\ Len(series) > 0

\* the clock advances
Tick ==
  /\ now < T0 + MaxTicks * TickMs
  /\ pendingEffects = {}
  /\ now' = now + TickMs
  /\ emitted' = << >>
  /\ lastOp' = "tick"
  /\ UNCHANGED <<cvars, wvars, tvars, lvars, svars, mvars, bvars, yAxisScale,
                 pendingEffects>>

handleTimeRangeChange(newRange) ==
  /\ Rendered
  /\ timeRange' = newRange
  /\ startTime' = getTimeRangeFromValue(newRange, now)[1]
  /\ endTime' = getTimeRangeFromValue(newRange, now)[2]
  /\ emitted' = << <<startTime', endTime'>> >>
  /\ lastOp' = "handleTimeRangeChange"
  /\ UNCHANGED <<cvars, now, tvars, lvars, svars, mvars, bvars, yAxisScale,
                 pendingEffects>>

\* TimeRangeSelector.handleCustomTimeApply -> handleCustomTimeRangeChange
handleCustomTimeApply(startDate, endDate) ==
  /\ Rendered
  /\ IF startDate < endDate
       THEN CustomWindow(startDate, endDate)
       ELSE /\ UNCHANGED wvars
            /\ emitted' = << >>
  /\ lastOp' = "handleCustomTimeApply"
  /\ UNCHANGED <<cvars, now, tvars, lvars, svars, mvars, bvars, yAxisScale,
                 pendingEffects>>

\* window.clearInterval(refreshTimerRef.current)
ClearInterval(ts, id) == {t \in ts : t.id # id}

\* mutant of CancelTimer: the existing timer is not cancelled
CancelTimerSkipped(ts, ref) == ts

\* if (refreshTimerRef.current) { window.clearInterval(...) }
CancelTimer(ts, ref) == IF ref # 0 THEN ClearInterval(ts, ref) ELSE ts

\* mutant of StartsTimer: a timer is installed for cadence 0 as well
StartsTimerAlways(interval) == interval >= 0

\* if (interval > 0): a new timer is installed
StartsTimer(interval) == interval > 0

handleRefreshIntervalChange(interval) ==
  /\ Rendered
  /\ StartsTimer(interval) => nextTimerId <= MaxTimerId
  /\ refreshInterval' = interval
  /\ LET cleared == CancelTimer(timers, refreshTimerRef)
     IN IF StartsTimer(interval)
          THEN /\ timers' = cleared
                              \cup {[id |-> nextTimerId,
                                     period |-> interval * 1000]}
               /\ refreshTimerRef' = nextTimerId
               /\ nextTimerId' = nextTimerId + 1
          ELSE /\ timers' = cleared
               /\ refreshTimerRef' = 0
               /\ UNCHANGED nextTimerId
  /\ emitted' = << >>
  /\ lastOp' = IF interval = 0
                 THEN IF refreshInterval = 0
                        THEN "handleRefreshIntervalChange:offAgain"
                        ELSE "handleRefreshIntervalChange:off"
               ELSE IF refreshInterval # 0 /\ refreshInterval # interval
                 THEN "handleRefreshIntervalChange:replace"
               ELSE "handleRefreshIntervalChange:on"
  /\ UNCHANGED <<cvars, now, wvars, lvars, svars, mvars, bvars, yAxisScale,
                 pendingEffects>>

\* useCallback(() => refreshData(), []): the refreshData of the first render
handleRefreshClick ==
  /\ Rendered
  /\ refreshData(initialTimeRange)
  /\ lastOp' = "handleRefreshClick"
  /\ UNCHANGED <<cvars, now, tvars, svars, mvars, bvars, yAxisScale,
                 pendingEffects>>

\* a tick of an active interval timer: the callback installed by
\* handleRefreshIntervalChange, which holds the refreshData of the first render
TimerFire(t) ==
  /\ t \in timers
  /\ pendingEffects = {}
  /\ refreshData(initialTimeRange)
  /\ lastOp' = "timerFire"
  /\ UNCHANGED <<cvars, now, tvars, svars, mvars, bvars, yAxisScale,
                 pendingEffects>>

\* the button of the empty-state card: onClick={refreshData} (current render)
EmptyStateLoadClick ==
  /\ Idle
  /\ Len(series) = 0
  /\ refreshData(timeRange)
  /\ lastOp' = "emptyStateLoadClick"
  /\ UNCHANGED <<cvars, now, tvars, svars, mvars, bvars, yAxisScale,
                 pendingEffects>>

\* ChartTimeSeries handleQuerySubmit: setIsRefreshing(true), setTimeout(700)
handleQuerySubmit ==
  /\ Rendered
  /\ TriggerLoad("query")
  /\ isRefreshing' = TRUE
  /\ emitted' = << >>
  /\ lastOp' = "handleQuerySubmit"
  /\ UNCHANGED <<cvars, now, wvars, tvars, svars, mvars, bvars, yAxisScale,
                 pendingEffects>>

\* handleQueryChange(newQuery): typing, or picking a suggestion or a history
\* entry
handleQueryChange(newQuery) ==
  /\ Rendered
  /\ query' = newQuery
  /\ emitted' = << >>
  /\ lastOp' = "handleQueryChange"
  /\ UNCHANGED <<variant, mounted, initialTimeRange, hasInitialData,
                 queryHistory, submitted, csvContent, now, wvars, tvars, lvars, svars,
                 mvars, bvars, yAxisScale, pendingEffects>>

\* QueryInput.handleQuerySubmit (the form's onSubmit): a non-blank query is
\* handed to onQuerySubmit, which is the chart's handleQuerySubmit, and
\* added to the history; a blank one only raises the toast
QueryInput_handleQuerySubmit ==
  /\ Rendered
  /\ submitted < MaxSubmits
  /\ IF IsSubmittable(query)
       THEN /\ TriggerLoad("query")
            /\ isRefreshing' = TRUE
            /\ submitted' = submitted + 1
            /\ queryHistory' = addToQueryHistory(queryHistory, query)
            /\ lastOp' = "QueryInput.handleQuerySubmit:submitted"
       ELSE /\ UNCHANGED <<lvars, submitted, queryHistory>>
            /\ lastOp' = "QueryInput.handleQuerySubmit:rejected"
  /\ emitted' = << >>
  /\ UNCHANGED <<variant, mounted, initialTimeRange, hasInitialData, query,
                 csvContent, now, wvars, tvars, svars, mvars, bvars, yAxisScale,
                 pendingEffects>>

RemoveAt(s, i) == SubSeq(s, 1, i - 1) \o SubSeq(s, i + 1, Len(s))

\* a load started later can finish first only when it is the 500 ms refresh
\* overtaking a 700 ms query submission
CanComplete(i) ==
  \A j \in 1..(i - 1) : inflight[j] = "query" /\ inflight[i] = "refresh"

\* a completion that keeps the series of the load it follows
ReplaceAllMerged(old, data) ==
  old \o SelectSeq(data, LAMBDA d : \A k \in 1..Len(old) : old[k].id # d.id)

\* setSeries(mockData): the store is replaced wholesale
ReplaceAll(old, data) == data

\* mutant of LoadComplete: the callback writes the state of a torn-down chart
LoadCompleteAfterTeardown(i, data) ==
  /\ i \in 1..Len(inflight)
  /\ CanComplete(i)
  /\ pendingEffects = {}
  /\ inflight' = RemoveAt(inflight, i)
  /\ loadIds' = RemoveAt(loadIds, i)
  /\ series' = ReplaceAll(series, data)
  /\ isRefreshing' = FALSE
  /\ pendingEffects' = IF mounted THEN {"align"} ELSE pendingEffects
  /\ triggersPending' = triggersPending - 1
  /\ emitted' = << >>
  /\ lastOp' = "loadComplete"
  /\ UNCHANGED <<cvars, now, wvars, tvars, chartData, mvars, bvars,
                 yAxisScale>>

\* the setTimeout callback of refreshData / handleQuerySubmit: setSeries(data)
\* and setIsRefreshing(false); React drops both once the instance is unmounted
LoadComplete(i, data) ==
  /\ i \in 1..Len(inflight)
  /\ CanComplete(i)
  /\ pendingEffects = {}
  /\ inflight' = RemoveAt(inflight, i)
  /\ loadIds' = RemoveAt(loadIds, i)
  /\ IF mounted
       THEN /\ series' = ReplaceAll(series, data)
            /\ isRefreshing' = FALSE
            /\ pendingEffects' = {"align"}
            /\ triggersPending' = triggersPending - 1
       ELSE UNCHANGED <<series, isRefreshing, pendingEffects, triggersPending>>
  /\ emitted' = << >>
  /\ lastOp' = "loadComplete"
  /\ UNCHANGED <<cvars, now, wvars, tvars, chartData, mvars, bvars,
                 yAxisScale>>

\* mutant of ToggledSeries: the series with the id is hidden, never shown
ToggledSeriesHideOnly(ss, id) ==
  [k \in 1..Len(ss) |->
     IF ss[k].id = id THEN [ss[k] EXCEPT !.visible = FALSE] ELSE ss[k]]

\* prevSeries.map(s => s.id === id ? {...s, visible: ...} : s)
ToggledSeries(ss, id) ==
  [k \in 1..Len(ss) |->
     IF ss[k].id = id THEN [ss[k] EXCEPT !.visible = ~ss[k].visible]
     ELSE ss[k]]

handleToggleSeries(id) ==
  /\ Rendered
  /\ series' = ToggledSeries(series, id)
  /\ pendingEffects' = {"align"}
  /\ emitted' = << >>
  /\ lastOp' =
       IF \E k \in 1..Len(series) : series[k].id = id /\ series[k].visible
         THEN "handleToggleSeries:hide"
       ELSE IF \E k \in 1..Len(series) : series[k].id = id
         THEN "handleToggleSeries:show"
       ELSE "handleToggleSeries:unknownId"
  /\ UNCHANGED <<cvars, now, wvars, tvars, lvars, chartData, mvars, bvars,
                 yAxisScale>>

\* mutant of UnmountCleanup: teardown leaves the timer running
UnmountCleanupSkipped(ts, ref) == ts

\* the cleanup function of the unmount effect
UnmountCleanup(ts, ref) == IF ref # 0 THEN ClearInterval(ts, ref) ELSE ts

\* teardown of the chart instance
Unmount ==
  /\ mounted
  /\ pendingEffects = {}
  /\ mounted' = FALSE
  /\ timers' = UnmountCleanup(timers, refreshTimerRef)
  /\ emitted' = << >>
  /\ lastOp' = "unmount"
  /\ UNCHANGED <<variant, initialTimeRange, hasInitialData, query, queryHistory, submitted, csvContent,
                 now, wvars,
                 refreshInterval, refreshTimerRef, nextTimerId, lvars, svars,
                 mvars, bvars, yAxisScale, pendingEffects>>

(* ------------------------- interaction modes --------------------------- *)
\* variant A toolbar: each button only flips its own flag; the exclusion is
\* left to the mode-exclusion effect
ToggleZoomA ==
  /\ Rendered /\ variant = "A"
  /\ zoomMode' = ~zoomMode
  /\ pendingEffects' = ModeDeps
  /\ emitted' = << >>
  /\ lastOp' = IF zoomMode THEN "disableZoom" ELSE "enableZoom"
  /\ UNCHANGED <<cvars, now, wvars, tvars, lvars, svars, panMode, brushMode,
                 crosshair, interactionModeRef, bvars, yAxisScale>>

TogglePanA ==
  /\ Rendered /\ variant = "A"
  /\ panMode' = ~panMode
  /\ pendingEffects' = ModeDeps
  /\ emitted' = << >>
  /\ lastOp' = IF panMode THEN "disablePan" ELSE "enablePan"
  /\ UNCHANGED <<cvars, now, wvars, tvars, lvars, svars, zoomMode, brushMode,
                 crosshair, interactionModeRef, bvars, yAxisScale>>

ToggleBrushA ==
  /\ Rendered /\ variant = "A"
  /\ brushMode' = ~brushMode
  /\ pendingEffects' = ModeDeps
  /\ emitted' = << >>
  /\ lastOp' = IF brushMode THEN "disableBrush" ELSE "enableBrush"
  /\ UNCHANGED <<cvars, now, wvars, tvars, lvars, svars, zoomMode, panMode,
                 crosshair, interactionModeRef, bvars, yAxisScale>>

ToggleCrosshairA ==
  /\ Rendered /\ variant = "A"
  /\ crosshair' = ~crosshair
  /\ emitted' = << >>
  /\ lastOp' = IF crosshair THEN "disableCrosshair" ELSE "enableCrosshair"
  /\ UNCHANGED <<cvars, now, wvars, tvars, lvars, svars, zoomMode, panMode,
                 brushMode, interactionModeRef, bvars, yAxisScale,
                 pendingEffects>>

\* variant C toolbar: zoom and pan clear each other in the click handler
ToggleZoomC ==
  /\ Rendered /\ variant = "C"
  /\ zoomMode' = ~zoomMode
  /\ panMode' = FALSE
  /\ emitted' = << >>
  /\ lastOp' = IF zoomMode THEN "disableZoom" ELSE "enableZoom"
  /\ UNCHANGED <<cvars, now, wvars, tvars, lvars, svars, brushMode, crosshair,
                 interactionModeRef, bvars, yAxisScale, pendingEffects>>

TogglePanC ==
  /\ Rendered /\ variant = "C"
  /\ panMode' = ~panMode
  /\ zoomMode' = FALSE
  /\ emitted' = << >>
  /\ lastOp' = IF panMode THEN "disablePan" ELSE "enablePan"
  /\ UNCHANGED <<cvars, now, wvars, tvars, lvars, svars, brushMode, crosshair,
                 interactionModeRef, bvars, yAxisScale, pendingEffects>>

\* variant D toolbar: every button clears the three other flags itself
ToggleZoomD ==
  /\ Rendered /\ variant = "D"
  /\ zoomMode' = ~zoomMode
  /\ panMode' = FALSE
  /\ brushMode' = FALSE
  /\ crosshair' = FALSE
  /\ emitted' = << >>
  /\ lastOp' = IF zoomMode THEN "disableZoom" ELSE "enableZoom"
  /\ UNCHANGED <<cvars, now, wvars, tvars, lvars, svars, interactionModeRef,
                 bvars, yAxisScale, pendingEffects>>

TogglePanD ==
  /\ Rendered /\ variant = "D"
  /\ panMode' = ~panMode
  /\ zoomMode' = FALSE
  /\ brushMode' = FALSE
  /\ crosshair' = FALSE
  /\ emitted' = << >>
  /\ lastOp' = IF panMode THEN "disablePan" ELSE "enablePan"
  /\ UNCHANGED <<cvars, now, wvars, tvars, lvars, svars, interactionModeRef,
                 bvars, yAxisScale, pendingEffects>>

ToggleBrushD ==
  /\ Rendered /\ variant = "D"
  /\ brushMode' = ~brushMode
  /\ zoomMode' = FALSE
  /\ panMode' = FALSE
  /\ crosshair' = FALSE
  /\ emitted' = << >>
  /\ lastOp' = IF brushMode THEN "disableBrush" ELSE "enableBrush"
  /\ UNCHANGED <<cvars, now, wvars, tvars, lvars, svars, interactionModeRef,
                 bvars, yAxisScale, pendingEffects>>

ToggleCrosshairD ==
  /\ Rendered /\ variant = "D"
  /\ crosshair' = ~crosshair
  /\ zoomMode' = FALSE
  /\ panMode' = FALSE
  /\ brushMode' = FALSE
  /\ emitted' = << >>
  /\ lastOp' = IF crosshair THEN "disableCrosshair" ELSE "enableCrosshair"
  /\ UNCHANGED <<cvars, now, wvars, tvars, lvars, svars, interactionModeRef,
                 bvars, yAxisScale, pendingEffects>>

\* variant A: handleResetView
handleResetView ==
  /\ Rendered /\ variant = "A"
  /\ yAxisScale' = 100
  /\ brushMode' = FALSE
  /\ panMode' = FALSE
  /\ zoomMode' = FALSE
  /\ selectedArea' = NoArea
  /\ pendingEffects' =
       IF zoomMode \/ panMode \/ brushMode THEN ModeDeps ELSE {}
  /\ emitted' = << >>
  /\ lastOp' = "handleResetView"
  /\ UNCHANGED <<cvars, dvars, now, wvars, tvars, lvars, svars, crosshair,
                 interactionModeRef, brushSelected, dragStartRef, zoomArea>>

\* variant A: handleYAxisScaleChange (slider 10..200 step 10)
YAxisScales == {50, 100, 150}

handleYAxisScaleChange(value) ==
  /\ Rendered /\ variant = "A"
  /\ yAxisScale' = value
  /\ emitted' = << >>
  /\ lastOp' = "handleYAxisScaleChange"
  /\ UNCHANGED <<cvars, now, wvars, tvars, lvars, svars, mvars, bvars,
                 pendingEffects>>

(* -------------------------- brush selection ---------------------------- *)
\* the indices a Brush event can carry: startIndex <= endIndex, both rows
BrushEvents ==
  {e \in (0..(Len(chartData) - 1)) \X (0..(Len(chartData) - 1)) : e[1] <= e[2]}

\* chartData[i].timestamp for a 0-based index
RowTime(i) == chartData[i + 1].timestamp

\* 0 and undefined are both falsy
Falsy(n) == n = 0 \/ n = -1

\* variant A: handleBrushChange
handleBrushChangeA(startIndex, endIndex) ==
  /\ Rendered /\ variant = "A"
  /\ <<startIndex, endIndex>> \in BrushEvents
  /\ selectedArea' =
       IF Falsy(startIndex) \/ Falsy(endIndex) THEN selectedArea
       ELSE IF startIndex = endIndex THEN NoArea
       ELSE [start |-> startIndex, end |-> endIndex]
  /\ emitted' = << >>
  /\ lastOp' = "handleBrushChange"
  /\ UNCHANGED <<cvars, dvars, now, wvars, tvars, lvars, svars, mvars,
                 brushSelected, dragStartRef, zoomArea, yAxisScale,
                 pendingEffects>>

\* the Apply/Cancel buttons of variant A are rendered
ApplyShownA ==
  brushMode /\ selectedArea.start # -1 /\ selectedArea.end # -1

\* variant A: handleBrushApply; reading the timestamp of a row that does not
\* exist throws, which abandons the handler before any state is set
handleBrushApply ==
  /\ Rendered /\ variant = "A"
  /\ ApplyShownA
  /\ IF Falsy(selectedArea.start) \/ Falsy(selectedArea.end)
          \/ selectedArea.start = selectedArea.end
          \/ Len(chartData) = 0
       THEN /\ UNCHANGED <<wvars, selectedArea, brushMode, pendingEffects>>
            /\ emitted' = << >>
            /\ lastOp' = "handleBrushApply"
     ELSE IF selectedArea.start >= Len(chartData)
               \/ selectedArea.end >= Len(chartData)
       THEN /\ UNCHANGED <<wvars, selectedArea, brushMode, pendingEffects>>
            /\ emitted' = << >>
            /\ lastOp' = "handleBrushApply:TypeError"
     ELSE /\ CustomWindow(RowTime(selectedArea.start),
                          RowTime(selectedArea.end))
          /\ selectedArea' = NoArea
          /\ brushMode' = FALSE
          /\ pendingEffects' = ModeDeps
          /\ lastOp' = "handleBrushApply"
  /\ UNCHANGED <<cvars, dvars, now, tvars, lvars, svars, zoomMode, panMode,
                 crosshair, interactionModeRef, brushSelected, dragStartRef,
                 zoomArea, yAxisScale>>

\* variant A: the Cancel button, onClick={() => setSelectedArea({})}
CancelSelectionA ==
  /\ Rendered /\ variant = "A"
  /\ ApplyShownA
  /\ selectedArea' = NoArea
  /\ emitted' = << >>
  /\ lastOp' = "cancelSelection"
  /\ UNCHANGED <<cvars, dvars, now, wvars, tvars, lvars, svars, mvars,
                 brushSelected, dragStartRef, zoomArea, yAxisScale,
                 pendingEffects>>

\* variant C: handleBrushChange
handleBrushChangeC(startIndex, endIndex) ==
  /\ Rendered /\ variant = "C"
  /\ <<startIndex, endIndex>> \in BrushEvents
  /\ brushSelected' = <<startIndex, endIndex>>
  /\ emitted' = << >>
  /\ lastOp' = "handleBrushChange"
  /\ UNCHANGED <<cvars, dvars, now, wvars, tvars, lvars, svars, mvars,
                 selectedArea, dragStartRef, zoomArea, yAxisScale,
                 pendingEffects>>

\* variant C: handleApplyBrushSelection (button shown while brushSelected)
handleApplyBrushSelection ==
  /\ Rendered /\ variant = "C"
  /\ brushSelected # << >>
  /\ IF Len(chartData) > 0
          /\ brushSelected[1] < Len(chartData)
          /\ brushSelected[2] < Len(chartData)
       THEN /\ CustomWindow(RowTime(brushSelected[1]),
                            RowTime(brushSelected[2]))
            /\ brushSelected' = << >>
       ELSE /\ UNCHANGED <<wvars, brushSelected>>
            /\ emitted' = << >>
  /\ lastOp' = "handleApplyBrushSelection"
  /\ UNCHANGED <<cvars, dvars, now, tvars, lvars, svars, mvars, selectedArea,
                 dragStartRef, zoomArea, yAxisScale, pendingEffects>>

\* variant D: handleBrushEnd, wired to the Brush's onChange
handleBrushEnd(startIndex, endIndex) ==
  /\ Rendered /\ variant = "D"
  /\ <<startIndex, endIndex>> \in BrushEvents
  /\ IF startIndex = endIndex \/ Len(chartData) = 0
       THEN /\ UNCHANGED wvars
            /\ emitted' = << >>
       ELSE CustomWindow(RowTime(startIndex), RowTime(endIndex))
  /\ lastOp' = "handleBrushEnd"
  /\ UNCHANGED <<cvars, now, tvars, lvars, svars, mvars, bvars, yAxisScale,
                 pendingEffects>>

(* ------------------------ pixel drag (variant D) ----------------------- *)
\* chartContainerRef.current.clientWidth and the pointer positions tried
ChartWidth == 4
Pixels == 0..ChartWidth

Min(a, b) == IF a <= b THEN a ELSE b
Max(a, b) == IF a >= b THEN a ELSE b
\* Math.floor(x * (dataLength / chartWidth)), Math.ceil(...) for integers
FloorDiv(a, b) == a \div b
CeilDiv(a, b) == (a + b - 1) \div b

handleMouseDown(x) ==
  /\ Rendered /\ variant = "D"
  /\ x \in Pixels
  /\ IF ~brushMode
       THEN UNCHANGED <<dragStartRef, zoomArea>>
       ELSE /\ dragStartRef' = x
            /\ zoomArea' = [x1 |-> x, x2 |-> -1]
  /\ emitted' = << >>
  /\ lastOp' = "handleMouseDown"
  /\ UNCHANGED <<cvars, dvars, now, wvars, tvars, lvars, svars, mvars,
                 selectedArea, brushSelected, yAxisScale, pendingEffects>>

handleMouseMove(x) ==
  /\ Rendered /\ variant = "D"
  /\ x \in Pixels
  /\ IF ~brushMode \/ dragStartRef = -1
       THEN UNCHANGED zoomArea
       ELSE zoomArea' = [x1 |-> dragStartRef, x2 |-> x]
  /\ emitted' = << >>
  /\ lastOp' = "handleMouseMove"
  /\ UNCHANGED <<cvars, dvars, now, wvars, tvars, lvars, svars, mvars,
                 selectedArea, brushSelected, dragStartRef, yAxisScale,
                 pendingEffects>>

\* the indices handleMouseUp resolves the dragged pixels to
DragStartIndex ==
  Max(0, FloorDiv(Min(zoomArea.x1, zoomArea.x2) * Len(chartData), ChartWidth))

DragEndIndex ==
  Min(Len(chartData) - 1,
      CeilDiv(Max(zoomArea.x1, zoomArea.x2) * Len(chartData), ChartWidth))

\* reading the timestamp of a row that does not exist throws, which abandons
\* the handler before the drag state is cleared
handleMouseUp ==
  /\ Rendered /\ variant = "D"
  /\ IF ~brushMode \/ dragStartRef = -1
          \/ Falsy(zoomArea.x1) \/ Falsy(zoomArea.x2)
          \/ Len(chartData) = 0
          \/ DragStartIndex = DragEndIndex
       THEN /\ UNCHANGED wvars
            /\ emitted' = << >>
            /\ dragStartRef' = -1
            /\ zoomArea' = NoZoomArea
            /\ lastOp' = "handleMouseUp"
     ELSE IF DragStartIndex >= Len(chartData)
       THEN /\ UNCHANGED <<wvars, dragStartRef, zoomArea>>
            /\ emitted' = << >>
            /\ lastOp' = "handleMouseUp:TypeError"
     ELSE /\ CustomWindow(RowTime(DragStartIndex), RowTime(DragEndIndex))
          /\ dragStartRef' = -1
          /\ zoomArea' = NoZoomArea
          /\ lastOp' = "handleMouseUp"
  /\ UNCHANGED <<cvars, dvars, now, tvars, lvars, svars, mvars, selectedArea,
                 brushSelected, yAxisScale, pendingEffects>>

\* the container's onMouseLeave
handleMouseLeave ==
  /\ Rendered /\ variant = "D"
  /\ dragStartRef' = -1
  /\ zoomArea' = NoZoomArea
  /\ emitted' = << >>
  /\ lastOp' = IF dragStartRef # -1 THEN "handleMouseLeave:cancel"
                ELSE "handleMouseLeave"
  /\ UNCHANGED <<cvars, dvars, now, wvars, tvars, lvars, svars, mvars,
                 selectedArea, brushSelected, yAxisScale, pendingEffects>>

(* ------------------------ pixel drag (variant C) ----------------------- *)
\* selectionStart/selectionEnd hold rangeStart + domain * (relativeX /
\* chartWidth), a fraction of a millisecond: they are kept in units of
\* 1/ChartWidth ms, which is exact for the pointer positions tried
NoClientX == -2
NaNSel == -2

\* mutant of SelectionTimestamp: the pixels are counted from the right edge
SelectionTimestampMirrored(x) ==
  IF x = NoClientX THEN NaNSel
  ELSE endTime * ChartWidth - (endTime - startTime) * x

SelectionTimestamp(x) ==
  IF x = NoClientX THEN NaNSel
  ELSE startTime * ChartWidth + (endTime - startTime) * x

\* new Date(n).getTime(): the fraction of a millisecond is dropped
DateOf(sel) == sel \div ChartWidth

Abs(n) == IF n < 0 THEN 0 - n ELSE n

\* mutant of MeaningfulSelection: a selection of exactly one second passes
MeaningfulSelectionInclusive(a, b) ==
  a # NaNSel /\ b # NaNSel /\ Abs(b - a) >= 1000 * ChartWidth

\* Math.abs(selectionEnd - selectionStart) > 1000 (false for NaN)
MeaningfulSelection(a, b) ==
  a # NaNSel /\ b # NaNSel /\ Abs(b - a) > 1000 * ChartWidth

\* the windows on which a pointer-down is tried: those a confirmed brush
\* selection leaves (both ends are row timestamps), whose pixels are
\* fractions of a second
DragTried ==
  \E i \in 0..(Len(chartData) - 1), j \in 0..(Len(chartData) - 1) :
    startTime = RowTime(i) /\ endTime = RowTime(j)

\* variant C: handleChartMouseDown, on the overlay rendered while zoomMode
handleChartMouseDown(x) ==
  /\ Rendered /\ variant = "C"
  /\ zoomMode
  /\ x \in Pixels
  /\ DragTried
  /\ selectionStart' = SelectionTimestamp(x)
  /\ selectionEnd' = -1
  /\ isSelecting' = TRUE
  /\ emitted' = << >>
  /\ lastOp' = "handleChartMouseDown"
  /\ UNCHANGED <<cvars, now, wvars, tvars, lvars, svars, mvars, selectedArea,
                 brushSelected, dragStartRef, zoomArea, yAxisScale,
                 pendingEffects>>

\* variant C: handleChartMouseMove, the chart's onMouseMove; x is the
\* event's clientX, NoClientX when the event carries none
handleChartMouseMove(x) ==
  /\ Rendered /\ variant = "C"
  /\ x \in Pixels \cup {NoClientX}
  /\ IF isSelecting /\ selectionStart # -1
       THEN selectionEnd' = SelectionTimestamp(x)
       ELSE UNCHANGED selectionEnd
  /\ emitted' = << >>
  /\ lastOp' = "handleChartMouseMove"
  /\ UNCHANGED <<cvars, now, wvars, tvars, lvars, svars, mvars, selectedArea,
                 brushSelected, dragStartRef, zoomArea, selectionStart,
                 isSelecting, yAxisScale, pendingEffects>>

\* variant C: handleChartMouseUp, on the overlay rendered while zoomMode
handleChartMouseUp ==
  /\ Rendered /\ variant = "C"
  /\ zoomMode
  /\ IF isSelecting /\ selectionStart # -1 /\ selectionEnd # -1
          /\ MeaningfulSelection(selectionStart, selectionEnd)
       THEN /\ CustomWindow(DateOf(Min(selectionStart, selectionEnd)),
                            DateOf(Max(selectionStart, selectionEnd)))
            /\ lastOp' = "handleChartMouseUp:applied"
       ELSE /\ UNCHANGED wvars
            /\ emitted' = << >>
            /\ lastOp' = "handleChartMouseUp"
  /\ isSelecting' = FALSE
  /\ selectionStart' = -1
  /\ selectionEnd' = -1
  /\ UNCHANGED <<cvars, now, tvars, lvars, svars, mvars, selectedArea,
                 brushSelected, dragStartRef, zoomArea, yAxisScale,
                 pendingEffects>>

\* mutant of handleChartMouseLeave: the drag survives the pointer leaving
handleChartMouseLeaveKeepsDrag ==
  /\ Rendered /\ variant = "C"
  /\ emitted' = << >>
  /\ lastOp' = IF isSelecting THEN "handleChartMouseLeave:cancel"
                ELSE "handleChartMouseLeave"
  /\ UNCHANGED <<cvars, now, wvars, tvars, lvars, svars, mvars, bvars,
                 yAxisScale, pendingEffects>>

\* variant C: handleChartMouseLeave, the chart's onMouseLeave
handleChartMouseLeave ==
  /\ Rendered /\ variant = "C"
  /\ IF isSelecting
       THEN /\ isSelecting' = FALSE
            /\ selectionStart' = -1
            /\ selectionEnd' = -1
       ELSE UNCHANGED dvars
  /\ emitted' = << >>
  /\ lastOp' = IF isSelecting THEN "handleChartMouseLeave:cancel"
                ELSE "handleChartMouseLeave"
  /\ UNCHANGED <<cvars, now, wvars, tvars, lvars, svars, mvars, selectedArea,
                 brushSelected, dragStartRef, zoomArea, yAxisScale,
                 pendingEffects>>

\* variant C: resetView (a plain function: current timeRange, prop
\* initialTimeRange)
resetView ==
  /\ Rendered /\ variant = "C"
  /\ zoomMode' = FALSE
  /\ panMode' = FALSE
  /\ IF timeRange = Custom
       THEN /\ timeRange' = initialTimeRange
            /\ startTime' = getTimeRangeFromValue(initialTimeRange, now)[1]
            /\ endTime' = getTimeRangeFromValue(initialTimeRange, now)[2]
            /\ emitted' = << <<startTime', endTime'>> >>
       ELSE /\ UNCHANGED wvars
            /\ emitted' = << >>
  /\ lastOp' = "resetView"
  /\ UNCHANGED <<cvars, now, tvars, lvars, svars, brushMode, crosshair,
                 interactionModeRef, bvars, yAxisScale, pendingEffects>>

(* --------------------------- specifications ---------------------------- *)
EffectSteps ==
  \/ FlushEffects
  \/ \E i \in 1..MaxInFlight, data \in Loads : LoadComplete(i, data)

ModeSteps ==
  \/ ToggleZoomA \/ TogglePanA \/ ToggleBrushA \/ ToggleCrosshairA
  \/ ToggleZoomC \/ TogglePanC
  \/ ToggleZoomD \/ TogglePanD \/ ToggleBrushD \/ ToggleCrosshairD
  \/ handleResetView \/ resetView

WindowSteps ==
  \/ Tick
  \/ \E r \in TIME_RANGES : handleTimeRangeChange(r)
  \/ \E a \in {T0 - 7200000, T0 - 1800000}, b \in {T0 - 7200000, T0 - 1800000} :
       handleCustomTimeApply(a, b)
  \/ \E c \in REFRESH_INTERVALS : handleRefreshIntervalChange(c)
  \/ handleRefreshClick
  \/ \E t \in timers : TimerFire(t)
  \/ EmptyStateLoadClick
  \/ Unmount

BrushSteps ==
  \/ \E a \in 0..3, b \in 0..3 : handleBrushChangeA(a, b)
  \/ handleBrushApply
  \/ CancelSelectionA
  \/ \E a \in 0..3, b \in 0..3 : handleBrushChangeC(a, b)
  \/ handleApplyBrushSelection
  \/ \E a \in 0..3, b \in 0..3 : handleBrushEnd(a, b)

DragSteps ==
  \/ \E x \in Pixels : handleMouseDown(x)
  \/ \E x \in Pixels : handleMouseMove(x)
  \/ handleMouseUp
  \/ handleMouseLeave

DragStepsC ==
  \/ \E x \in Pixels : handleChartMouseDown(x)
  \/ \E x \in Pixels \cup {NoClientX} : handleChartMouseMove(x)
  \/ handleChartMouseUp
  \/ handleChartMouseLeave

Next ==
  \/ EffectSteps \/ ModeSteps \/ WindowSteps \/ BrushSteps \/ DragSteps
  \/ DragStepsC
  \/ handleQuerySubmit
  \/ \E id \in {"s1", "s2"} : handleToggleSeries(id)
  \/ \E v \in YAxisScales : handleYAxisScaleChange(v)

Spec == Init /\ [][Next]_vars

\* the chart driven through its mode buttons, reset and the brush of A
NextModes ==
  \/ EffectSteps
  \/ ModeSteps
  \/ \E a \in 0..3, b \in 0..3 : handleBrushChangeA(a, b)
  \/ handleBrushApply
  \/ CancelSelectionA

SpecModes == Init /\ [][NextModes]_vars

\* the chart driven through the time-range selector, the refresh controls,
\* the clock and teardown
NextRefresh ==
  \/ EffectSteps
  \/ WindowSteps
  \/ \E a \in 0..3, b \in 0..3 : handleBrushEnd(a, b)

SpecRefresh == Init /\ [][NextRefresh]_vars

\* the chart driven through the brush, the pixel drag and the legend
NextBrush ==
  \/ EffectSteps
  \/ ToggleBrushA \/ ToggleBrushD
  \/ BrushSteps
  \/ DragSteps
  \/ \E id \in {"s1", "s2"} : handleToggleSeries(id)

SpecBrush == Init /\ [][NextBrush]_vars

\* the chart driven through the zoom and brush buttons, the brush of
\* variant C and the pixel drags of variants C and D
NextDrag ==
  \/ EffectSteps
  \/ ToggleZoomC \/ ToggleBrushD
  \/ \E b \in 1..2 : handleBrushChangeC(0, b)
  \/ handleApplyBrushSelection
  \/ DragSteps
  \/ DragStepsC

SpecDrag == Init /\ [][NextDrag]_vars

\* the series lists tried as initialData: up to MaxPoints points per series,
\* in any order, with repeated timestamps, visible or hidden
MaxPoints == 2
PointSeqs ==
  UNION {[1..n -> {Pt(T0 - 3000, 1), Pt(T0 - 2000, 1), Pt(T0 - 1000, 1),
                    Pt(T0 - 1000, 2)}] : n \in 0..MaxPoints}

SeriesOf(id) ==
  {[id |-> id, visible |-> v, data |-> pts] : v \in BOOLEAN, pts \in PointSeqs}

AlignInputs ==
  {<< >>} \cup {<<a>> : a \in SeriesOf("s1")}
    \cup {<<a, b>> : a \in SeriesOf("s1"), b \in SeriesOf("s2")}

\* the ids a legend click is tried with; "s9" is in no store
ToggleIds == {"s1", "s2", "s9"}

\* the store and the aligned table, driven through initialData, the legend
\* and the loads
NextAlign ==
  \/ EffectSteps
  \/ \E id \in ToggleIds : handleToggleSeries(id)

SpecAlign == InitFrom({"A", "D"}, {Tok1h}, AlignInputs) /\ [][NextAlign]_vars

\* the chart driven through everything that starts a load (the initial load,
\* the refresh button, the interval timer, a query submission), the legend
\* and teardown
NextLoads ==
  \/ EffectSteps
  \/ handleRefreshClick
  \/ \E c \in REFRESH_INTERVALS : handleRefreshIntervalChange(c)
  \/ \E t \in timers : TimerFire(t)
  \/ EmptyStateLoadClick
  \/ handleQuerySubmit
  \/ \E id \in {"s1", "s2"} : handleToggleSeries(id)
  \/ Unmount

SpecLoads == Init /\ [][NextLoads]_vars

\* React flushes the effects of every commit (weak fairness of FlushEffects,
\* written through its enabling condition), and the event loop runs the
\* callback of the oldest pending setTimeout however often user events come
\* in between
SpecLoadsFair ==
  /\ InitFrom({"A"}, {Tok1h}, InitialDatas) /\ [][NextLoads]_vars
  /\ []<>(~(mounted /\ pendingEffects # {}))
  /\ SF_vars(\E data \in Loads : LoadComplete(1, data))

\* the chart driven through its mode buttons, the reset buttons, the value
\* scale, the brush of variants A and C and the pixel drag of variant C
NextReset ==
  \/ EffectSteps
  \/ ModeSteps
  \/ \E a \in 0..3, b \in 0..3 : handleBrushChangeA(a, b)
  \/ handleBrushApply
  \/ CancelSelectionA
  \/ \E b \in 1..2 : handleBrushChangeC(0, b)
  \/ handleApplyBrushSelection
  \/ DragStepsC
  \/ \E v \in YAxisScales : handleYAxisScaleChange(v)

SpecReset == Init /\ [][NextReset]_vars

(* ------------------------------ CSV export ----------------------------- *)
\* s.name of the series of the modelled stores: the name is not the id
SeriesName(s) == IF s.id = "s1" THEN "A" ELSE IF s.id = "s2" THEN "B" ELSE s.id

\* formatAbsoluteTime: 'yyyy-MM-dd HH:mm:ss', the instant cut to the second
formatAbsoluteTime(t) == t \div 1000

\* point[key] !== undefined ? point[key] : ""; a cell of a line is <<text>>,
\* or << >> for the empty string
ValueCell(point, key) ==
  IF key \in DOMAIN point.vals THEN <<point.vals[key]>> ELSE << >>

\* the lines written for the rows of the table, with the columns `keys`
CsvRows(table, keys) ==
  [i \in 1..Len(table) |->
     << <<formatAbsoluteTime(table[i].timestamp)>> >>
       \o [k \in 1..Len(keys) |-> ValueCell(table[i], keys[k])]]

\* exportDataCSV: csvContent, header of series names
CsvTextA(table, ss) ==
  LET visibleSeries == VisibleSeries(ss)
  IN << << <<"timestamp">> >>
          \o [k \in 1..Len(visibleSeries) |-> <<SeriesName(visibleSeries[k])>>] >>
       \o CsvRows(table, [k \in 1..Len(visibleSeries) |-> visibleSeries[k].id])

\* exportData (variant D): csvRows, header of series ids
CsvTextD(table, ss) ==
  LET seriesIds == [k \in 1..Len(VisibleSeries(ss)) |-> VisibleSeries(ss)[k].id]
  IN << << <<"timestamp">> >> \o [k \in 1..Len(seriesIds) |-> <<seriesIds[k]>>] >>
       \o CsvRows(table, seriesIds)

\* variant A: the "export as CSV" button
exportDataCSV ==
  /\ Rendered /\ variant = "A"
  /\ IF Len(chartData) = 0 \/ Len(series) = 0
       THEN /\ UNCHANGED csvContent
            /\ lastOp' = "exportDataCSV:nothing"
       ELSE /\ csvContent' = CsvTextA(chartData, series)
            /\ lastOp' = "exportDataCSV:written"
  /\ emitted' = << >>
  /\ UNCHANGED <<variant, mounted, initialTimeRange, hasInitialData, query, queryHistory, submitted,
                 now, wvars, tvars, lvars, svars, mvars, bvars, yAxisScale,
                 pendingEffects>>

\* variant D: the "export data" button
exportData ==
  /\ Rendered /\ variant = "D"
  /\ IF Len(chartData) = 0
       THEN /\ UNCHANGED csvContent
            /\ lastOp' = "exportData:nothing"
       ELSE /\ csvContent' = CsvTextD(chartData, series)
            /\ lastOp' = "exportData:written"
  /\ emitted' = << >>
  /\ UNCHANGED <<variant, mounted, initialTimeRange, hasInitialData, query, queryHistory, submitted,
                 now, wvars, tvars, lvars, svars, mvars, bvars, yAxisScale,
                 pendingEffects>>

\* the chart driven through the legend, the loads and the export buttons
NextExport ==
  \/ EffectSteps
  \/ \E id \in {"s1", "s2"} : handleToggleSeries(id)
  \/ exportDataCSV
  \/ exportData

SpecExport == InitFrom({"A", "D"}, {Tok1h}, AlignInputs) /\ [][NextExport]_vars

\* the chart driven through the query input and the loads it starts
NextQuery ==
  \/ EffectSteps
  \/ \E q \in Queries : handleQueryChange(q)
  \/ QueryInput_handleQuerySubmit

SpecQuery == InitFrom({"A"}, {Tok1h}, {LoadA}) /\ [][NextQuery]_vars

(* --------------------------- value-axis domain ------------------------- *)
\* domain bounds are carried in thousandths, so that the 10% padding and the
\* percent scale stay exact
Thousandths == 1000
\* Infinity, -Infinity and NaN as bounds of a domain
PosInf == 2000000000
NegInf == -2000000000
DomNaN == 1999999999

\* s.data.forEach(point => { min = Math.min(min, ...); max = Math.max(...) })
RECURSIVE ScanPoints(_, _)
ScanPoints(pts, acc) ==
  IF pts = << >> THEN acc
  ELSE ScanPoints(Tail(pts),
                  <<Min(acc[1], Head(pts).value), Max(acc[2], Head(pts).value)>>)

\* series.forEach(s => { if (s.visible === false) return; ... })
RECURSIVE ScanSeries(_, _)
ScanSeries(ss, acc) ==
  IF ss = << >> THEN acc
  ELSE ScanSeries(Tail(ss),
                  IF Head(ss).visible THEN ScanPoints(Head(ss).data, acc)
                                      ELSE acc)

\* mutant of calculatedDomain: the bounds are the raw minimum and maximum
calculatedDomainUnpadded(ss) ==
  LET scan == ScanSeries(ss, <<PosInf, NegInf>>)
  IN IF scan = <<PosInf, NegInf>>
       THEN <<PosInf, NegInf>>
       ELSE <<Max(0, scan[1] * Thousandths), scan[2] * Thousandths>>

\* mutant of calculatedDomain: the lower bound is not clamped at zero
calculatedDomainUnclamped(ss) ==
  LET scan == ScanSeries(ss, <<PosInf, NegInf>>)
      min == scan[1]
      max == scan[2]
  IN IF scan = <<PosInf, NegInf>>
       THEN <<PosInf, NegInf>>
       ELSE LET padding == (max - min) * (Thousandths \div 10)
            IN <<min * Thousandths - padding, max * Thousandths + padding>>

\* the padded and clamped domain of the scan; a scan that met no point
\* leaves min = Infinity, max = -Infinity, so padding = -Infinity and the
\* bounds are [Infinity, -Infinity]
calculatedDomain(ss) ==
  LET scan == ScanSeries(ss, <<PosInf, NegInf>>)
      min == scan[1]
      max == scan[2]
  IN IF scan = <<PosInf, NegInf>>
       THEN <<PosInf, NegInf>>
       ELSE LET padding == (max - min) * (Thousandths \div 10)
            IN <<Max(0, min * Thousandths - padding),
                 max * Thousandths + padding>>

\* mutant of calculateYAxisDomain: the scale is applied to both bounds
calculateYAxisDomainScaledBoth(table, ss, scale) ==
  IF Len(table) = 0 THEN <<0, 100 * Thousandths>>
  ELSE LET dom == calculatedDomain(ss)
       IN IF scale # 100
            THEN IF dom = <<PosInf, NegInf>>
                   THEN <<PosInf, DomNaN>>
                   ELSE <<(dom[1] * scale) \div 100, (dom[2] * scale) \div 100>>
            ELSE dom

\* calculateYAxisDomain() for the aligned table, the store and the scale of
\* the render; on the bounds of an empty scan, range = -Infinity and
\* Infinity + -Infinity = NaN
calculateYAxisDomain(table, ss, scale) ==
  IF Len(table) = 0 THEN <<0, 100 * Thousandths>>
  ELSE LET dom == calculatedDomain(ss)
       IN IF scale # 100
            THEN IF dom = <<PosInf, NegInf>>
                   THEN <<PosInf, DomNaN>>
                   ELSE <<dom[1], dom[1] + ((dom[2] - dom[1]) * scale) \div 100>>
            ELSE dom

\* the series lists tried as initialData: point lists over a set of values, up to MaxPoints points, ascending
\* timestamps
DomainSeqs(vals) ==
  UNION {{[k \in 1..n |-> Pt(T0 - 4000 + 1000 * k, f[k])] : f \in [1..n -> vals]}
           : n \in 0..MaxPoints}

DomainInputs ==
  {<< >>}
    \cup {<<[id |-> "s1", visible |-> TRUE, data |-> p]>> : p \in DomainSeqs({-5, 0, 5, 20})}
    \cup {<<[id |-> "s1", visible |-> v1, data |-> p1],
            [id |-> "s2", visible |-> v2, data |-> p2]>> :
            v1 \in BOOLEAN, v2 \in BOOLEAN,
            p1 \in DomainSeqs({-5, 0, 5, 20}), p2 \in DomainSeqs({5, 40})}

\* the chart driven through the legend, the scale slider and the loads, so
\* that the domain is computed for every store and scale
NextDomain ==
  \/ EffectSteps
  \/ \E id \in {"s1", "s2"} : handleToggleSeries(id)
  \/ \E value \in YAxisScales : handleYAxisScaleChange(value)

SpecDomain == InitFrom({"A", "D"}, {Tok1h}, DomainInputs) /\ [][NextDomain]_vars

\* the units getTimeRangeFromValue recognises, with their durations
Units == {"m", "h", "d"}

UnitMs(u) == IF u = "m" THEN MinuteMs ELSE IF u = "h" THEN HourMs ELSE DayMs

\* the amounts of the range tokens handed to the resolver
Amounts == {1, 3, 5, 7, 12, 15, 20}

\* the decimal numeral of n, as the token carries it
RECURSIVE ToDigits(_)
ToDigits(n) ==
  IF n < 10 THEN <<Digits[n + 1]>>
  ELSE ToDigits(n \div 10) \o <<Digits[(n % 10) + 1]>>

\* the token <n><unit>
Token(n, u) == ToDigits(n) \o <<u>>

\* strings that are not <integer><unit>
MalformedTokens ==
  { << >>, <<"m">>, <<"h">>, <<"d">>, Custom,
    <<"b", "o", "g", "u", "s">>, <<"1", "w">>, <<"5">>,
    <<"x", "5", "m">>, <<"5", "m", "m">> }

\* the chart driven through handleTimeRangeChange with every token, so that
\* getTimeRangeFromValue is applied to each of them at each clock reading
NextResolve ==
  \/ FlushEffects
  \/ Tick
  \/ \E n \in Amounts, u \in Units : handleTimeRangeChange(Token(n, u))
  \/ \E tok \in MalformedTokens : handleTimeRangeChange(tok)

SpecResolve == InitFrom(Variants, {Tok1h}, {LoadA}) /\ [][NextResolve]_vars

(* ============================== claims ================================= *)
Settled == mounted /\ pendingEffects = {}

ActiveOf3 ==
  {m \in {"zoom", "pan", "brush"} :
     \/ (m = "zoom" /\ zoomMode)
     \/ (m = "pan" /\ panMode)
     \/ (m = "brush" /\ brushMode)}

ActiveOf4 == ActiveOf3 \cup (IF crosshair THEN {"crosshair"} ELSE {})

\* C1: once the user has enabled Zoom, Pan or Brush and the effects of that
\* click have run, the enabled mode is active and the other two are inactive,
\* whichever mode was active before the click.
C1_EnabledModeIsTheActiveOne ==
  /\ (Settled /\ lastOp = "enableZoom") => ActiveOf3 = {"zoom"}
  /\ (Settled /\ lastOp = "enablePan") => ActiveOf3 = {"pan"}
  /\ (Settled /\ lastOp = "enableBrush") => ActiveOf3 = {"brush"}

\* C2: in every committed state, the one between a toggle click and the
\* effect that follows it included, at most one of zoomMode, panMode,
\* brushMode is true.
C2_AtMostOneModeCommitted == Cardinality(ActiveOf3) <= 1

\* C3: Crosshair is in the same exclusive set: enabling Crosshair leaves
\* Zoom, Pan and Brush inactive, enabling Zoom, Pan or Brush leaves Crosshair
\* inactive, and at most one of the four is active.
C3_CrosshairIsExclusive ==
  /\ (Settled /\ lastOp = "enableCrosshair") => ActiveOf3 = {}
  /\ (Settled /\ lastOp \in {"enableZoom", "enablePan", "enableBrush"})
       => ~crosshair
  /\ Settled => Cardinality(ActiveOf4) <= 1

\* a manual refresh click or a tick of the interval timer
RefreshStep == handleRefreshClick \/ \E t \in timers : TimerFire(t)

\* C4: a manual or scheduled refresh in window mode 'custom' leaves start and
\* end unchanged and does not call onTimeRangeChange.
C4_CustomWindowSurvivesRefresh ==
  [][(timeRange = Custom /\ RefreshStep)
       => (startTime' = startTime /\ endTime' = endTime /\ emitted' = << >>)
    ]_vars

\* C5: a manual or scheduled refresh in a symbolic mode R recomputes the
\* window as [now - duration(R), now] from the token that is current at the
\* time of the refresh and reports exactly that window.
C5_RefreshUsesCurrentToken ==
  [][(timeRange # Custom /\ RefreshStep)
       => /\ endTime' = now
          /\ startTime' = getTimeRangeFromValue(timeRange, now)[1]
          /\ emitted' = << <<startTime', endTime'>> >>
    ]_vars

\* C6: after any sequence of cadence changes at most one interval timer is
\* active, and while a nonzero cadence is in force on a mounted chart exactly
\* one timer is active, with that cadence as its period.
C6_OneTimerPerCadence ==
  /\ Cardinality(timers) <= 1
  /\ (mounted /\ refreshInterval # 0)
       => timers = {[id |-> refreshTimerRef,
                     period |-> refreshInterval * 1000]}

\* a nonzero cadence has just replaced a different nonzero cadence
C6_Witness ==
  /\ lastOp = "handleRefreshIntervalChange:replace"
  /\ refreshInterval # 0
  /\ Cardinality(timers) = 1

\* C7: while the cadence is 0 no timer exists, so no scheduled reload is
\* triggered; setting the cadence to 0 again changes nothing.
C7_CadenceZeroDisables ==
  [][/\ refreshInterval' = 0 => (timers' = {} /\ refreshTimerRef' = 0)
     /\ refreshInterval = 0 => ~(\E t \in timers : TimerFire(t))
     /\ (refreshInterval = 0 /\ handleRefreshIntervalChange(0))
          => UNCHANGED <<wvars, tvars, lvars, svars, mvars, bvars>>
    ]_vars

\* the cadence was set to 0 a second time, after a timer had been cancelled
C7_Witness ==
  /\ lastOp = "handleRefreshIntervalChange:offAgain"
  /\ nextTimerId > 1
  /\ refreshInterval = 0

\* C8: once the chart instance is torn down no interval timer is left, and
\* no timer tick happens after the teardown.
C8_TeardownCancelsTimer ==
  ~mounted => (timers = {} /\ lastOp # "timerFire")

\* torn down while a nonzero cadence (and its timer) was in force
C8_Witness ==
  /\ ~mounted
  /\ refreshInterval # 0
  /\ refreshTimerRef # 0

\* a step that turns a zero-width brush selection into a window, on each path
ZeroWidthConfirmStep ==
  \/ (ApplyShownA /\ selectedArea.start = selectedArea.end
        /\ handleBrushApply)
  \/ (brushSelected # << >> /\ brushSelected[1] = brushSelected[2]
        /\ handleApplyBrushSelection)
  \/ \E a \in 0..3 : handleBrushEnd(a, a)
  \/ (DragStartIndex = DragEndIndex /\ handleMouseUp)

\* C9: a selection whose startIndex equals its endIndex never calls
\* onTimeRangeChange and never changes the window, on any path.
C9_ZeroWidthSelectionIgnored ==
  [][ZeroWidthConfirmStep => (UNCHANGED wvars /\ emitted' = << >>)]_vars

\* a brush-change event of the Brush control, in any variant
BrushChangeStep ==
  \E a \in 0..3, b \in 0..3 :
    \/ handleBrushChangeA(a, b)
    \/ handleBrushChangeC(a, b)
    \/ handleBrushEnd(a, b)

\* C10: a brush-change event alone never changes the window or calls
\* onTimeRangeChange; only Apply or the pointer-up ending a drag does.
C10_BrushChangeAloneEmitsNothing ==
  [][BrushChangeStep => (UNCHANGED wvars /\ emitted' = << >>)]_vars

\* the pointer leaves the chart while a drag selection is in progress
LeaveDuringDragStep ==
  \/ (isSelecting /\ handleChartMouseLeave)
  \/ (dragStartRef # -1 /\ handleMouseLeave)

\* C11: when the pointer leaves the chart during a drag selection, the start,
\* the end and the in-progress flag of the drag are cleared, the window is
\* unchanged and onTimeRangeChange is not called, wherever the drag had got to.
C11_LeaveCancelsDrag ==
  [][LeaveDuringDragStep
       => /\ isSelecting' = FALSE
          /\ selectionStart' = -1 /\ selectionEnd' = -1
          /\ dragStartRef' = -1 /\ zoomArea' = NoZoomArea
          /\ UNCHANGED wvars
          /\ emitted' = << >>
    ]_vars

\* the pointer has just left during a drag, in variant C
C11_Witness ==
  /\ variant = "C"
  /\ lastOp = "handleChartMouseLeave:cancel"
  /\ zoomMode

\* C12: on pointer-up after a pixel drag in zoom mode, a drag whose resolved
\* ends are more than 1000 ms apart emits exactly one custom window, from the
\* earlier end to the later one (as Dates, whole milliseconds); a drag of at
\* most 1000 ms, or a pointer-down without a move, emits nothing and leaves
\* the window alone; either way the drag state is cleared afterwards.
C12_PointerUpAppliesWideDrag ==
  [][handleChartMouseUp
       => LET moved == isSelecting /\ selectionStart # -1 /\ selectionEnd # -1
              wide == /\ moved
                      /\ selectionEnd # NaNSel
                      /\ Abs(selectionEnd - selectionStart) > 1000 * ChartWidth
              lo == Min(selectionStart, selectionEnd) \div ChartWidth
              hi == Max(selectionStart, selectionEnd) \div ChartWidth
          IN /\ wide => /\ emitted' = << <<lo, hi>> >>
                         /\ startTime' = lo /\ endTime' = hi
                         /\ timeRange' = Custom
             /\ ~wide => (emitted' = << >> /\ UNCHANGED wvars)
             /\ isSelecting' = FALSE
             /\ selectionStart' = -1 /\ selectionEnd' = -1
    ]_vars

\* a drag of more than a second has just been applied
C12_Witness ==
  /\ lastOp = "handleChartMouseUp:applied"
  /\ Len(emitted) = 1
  /\ emitted[1][2] - emitted[1][1] > 1000
  /\ ~isSelecting

\* C13: Reset view, from any reachable state, leaves Zoom, Pan and Brush
\* inactive, no brush or drag selection recorded (brush indices, drag start
\* and end, in-progress flag) and the value scale at its default of 100.
C13_ResetViewClearsEverything ==
  (Settled /\ lastOp \in {"handleResetView", "resetView"})
    => /\ ActiveOf3 = {}
       /\ selectedArea = NoArea
       /\ brushSelected = << >>
       /\ dragStartRef = -1 /\ zoomArea = NoZoomArea
       /\ selectionStart = -1 /\ selectionEnd = -1 /\ ~isSelecting
       /\ yAxisScale = 100

\* C14: in every settled state with no interaction mode active, no brush
\* selection indices are recorded.
C14_NoModeNoSelection ==
  (Settled /\ ActiveOf4 = {})
    => (selectedArea = NoArea /\ brushSelected = << >>)

\* C15: the aligned table is sorted strictly ascending by timestamp, so no
\* two rows carry the same timestamp, whatever the series list is.
C15_TableStrictlyAscending ==
  \A i \in 1..Len(chartData), j \in 1..Len(chartData) :
    i < j => chartData[i].timestamp < chartData[j].timestamp

\* three rows were aligned from a series whose points are not in time order
C15_Witness ==
  /\ Settled
  /\ Len(chartData) = 3
  /\ \E k \in 1..Len(series) :
       /\ series[k].visible
       /\ Len(series[k].data) = 2
       /\ series[k].data[1].timestamp > series[k].data[2].timestamp

\* the indices of the visible series, and the timestamps of their points
VisibleIdx == {k \in 1..Len(series) : series[k].visible}

PointTimes(k) ==
  {series[k].data[n].timestamp : n \in 1..Len(series[k].data)}

\* the index of the last point of series k at timestamp t
LastPointAt(k, t) ==
  CHOOSE n \in 1..Len(series[k].data) :
    /\ series[k].data[n].timestamp = t
    /\ \A m \in (n + 1)..Len(series[k].data) :
         series[k].data[m].timestamp # t

\* C16: once the alignment effect has run, the table has exactly one row per
\* distinct timestamp of the visible series' points; a row holds a value for
\* series s exactly when s is visible and has a point at the row's timestamp,
\* and the value is that of the last such point of s; with no visible series,
\* or none with points, the table is empty.
C16_TableIsTheVisibleUnion ==
  Settled =>
    /\ {chartData[i].timestamp : i \in 1..Len(chartData)}
         = UNION {PointTimes(k) : k \in VisibleIdx}
    /\ Len(chartData) = Cardinality(UNION {PointTimes(k) : k \in VisibleIdx})
    /\ \A i \in 1..Len(chartData) :
         /\ DOMAIN chartData[i].vals
              = {series[k].id :
                   k \in {j \in VisibleIdx :
                            chartData[i].timestamp \in PointTimes(j)}}
         /\ \A k \in VisibleIdx :
              chartData[i].timestamp \in PointTimes(k)
                => chartData[i].vals[series[k].id]
                     = series[k].data[
                         LastPointAt(k, chartData[i].timestamp)].value

\* a visible series has two points at one timestamp with different values,
\* next to a hidden series that has points
C16_Witness ==
  /\ Settled
  /\ Len(chartData) > 0
  /\ \E k \in VisibleIdx :
       /\ Len(series[k].data) = 2
       /\ series[k].data[1].timestamp = series[k].data[2].timestamp
       /\ series[k].data[1].value # series[k].data[2].value
  /\ \E k \in 1..Len(series) : ~series[k].visible /\ series[k].data # << >>

\* the ids of the series that are visible / hidden in the store
VisibleIds == {series[k].id : k \in VisibleIdx}
HiddenIds == {series[k].id : k \in (1..Len(series)) \ VisibleIdx}

\* the table is recomputed after a visible series has been toggled hidden
RealignAfterHideStep ==
  /\ lastOp = "handleToggleSeries:hide"
  /\ "align" \in pendingEffects
  /\ FlushEffects

\* C17: when the table is recomputed after a visible series s was toggled
\* hidden, no row holds a value for s, every remaining row is a row of the
\* old table with the same values for every series that is still visible,
\* and a row of the old table is absent exactly when s held its only value.
C17_HidingRemovesOnlyThatSeries ==
  [][RealignAfterHideStep
       => /\ \A i \in 1..Len(chartData') :
               DOMAIN chartData'[i].vals \cap HiddenIds = {}
          /\ \A i \in 1..Len(chartData') :
               \E j \in 1..Len(chartData) :
                 /\ chartData[j].timestamp = chartData'[i].timestamp
                 /\ DOMAIN chartData'[i].vals
                      = DOMAIN chartData[j].vals \cap VisibleIds
                 /\ \A id \in DOMAIN chartData'[i].vals :
                      chartData'[i].vals[id] = chartData[j].vals[id]
          /\ \A j \in 1..Len(chartData) :
               (DOMAIN chartData[j].vals \cap VisibleIds = {})
                 <=> ~(\E i \in 1..Len(chartData') :
                         chartData'[i].timestamp = chartData[j].timestamp)
    ]_vars

\* a series was hidden while another stayed visible, and the recomputed
\* table lost a row that only the hidden series had a point for
C17_Witness ==
  /\ Settled
  /\ lastOp = "handleToggleSeries:hide"
  /\ Len(chartData) > 0
  /\ \E k \in (1..Len(series)) \ VisibleIdx :
       \E t \in PointTimes(k) :
         \A i \in 1..Len(chartData) : chartData[i].timestamp # t

\* C18: a legend click on id flips the visibility of exactly the series with
\* that id and leaves every other series, the order of the series and every
\* series' points unchanged; for an id that is in no series the store is
\* unchanged; a second click on the same id restores the visible set.
C18_ToggleFlipsExactlyOne ==
  [][\A id \in ToggleIds :
       handleToggleSeries(id)
         => /\ Len(series') = Len(series)
            /\ \A k \in 1..Len(series) :
                 /\ series'[k].id = series[k].id
                 /\ series'[k].data = series[k].data
                 /\ series'[k].visible
                      = IF series[k].id = id THEN ~series[k].visible
                        ELSE series[k].visible
            /\ (\A k \in 1..Len(series) : series[k].id # id)
                 => series' = series
            /\ LET twice == ToggledSeries(series', id)
               IN {k \in 1..Len(twice) : twice[k].visible} = VisibleIdx
    ]_vars

\* a hidden series of a store of two has just been shown again
C18_Witness ==
  /\ lastOp = "handleToggleSeries:show"
  /\ Len(series) = 2
  /\ pendingEffects = {"align"}

\* the store with every series shown
Shown(ss) == [k \in 1..Len(ss) |-> [ss[k] EXCEPT !.visible = TRUE]]

\* C19: under every interleaving of manual refreshes, timer ticks and query
\* submissions whose loads overlap, the store holds, up to the visibility
\* toggles applied since, either the initial data or the whole result of one
\* load, never series of two loads.
C19_StoreIsOneLoad == Shown(series) \in Loads \cup InitialDatas

\* a load has just replaced the store while a later one is still in flight
C19_Witness ==
  /\ mounted
  /\ lastOp = "loadComplete"
  /\ inflight # << >>
  /\ Shown(series) = LoadB

\* the load with setTimeout handle h is pending
LoadPending(h) == \E k \in 1..Len(loadIds) : loadIds[k] = h

CallsOfStep ==
  IF mounted /\ pendingEffects # {}
    THEN IF "mount" \in pendingEffects /\ ~hasInitialData /\ Len(series) = 0
           THEN emitted' ELSE << >>
    ELSE emitted'

WindowChanged == <<startTime', endTime'>> # <<startTime, endTime>>

\* C21 as stated: a step that changes the stored window calls
\* onTimeRangeChange exactly once, with the start and end it stores, and a
\* step that leaves the window unchanged never calls it.
C21_CalledExactlyOnChange ==
  [][/\ WindowChanged => CallsOfStep = << <<startTime', endTime'>> >>
     /\ ~WindowChanged => CallsOfStep = << >>
    ]_vars

\* C21, amended: a step that changes the stored window calls
\* onTimeRangeChange exactly once, no step calls it more than once, and every
\* call carries the start and end the step stores; a step that stores a
\* window equal to the one already stored still makes its call.
C21_CalledOnceWithStoredWindow ==
  [][/\ Len(CallsOfStep) <= 1
     /\ CallsOfStep # << >> => CallsOfStep[1] = <<startTime', endTime'>>
     /\ WindowChanged => CallsOfStep # << >>
    ]_vars

\* the custom range that is already stored has just been applied again
C21_Witness ==
  /\ lastOp = "handleCustomTimeApply"
  /\ timeRange = Custom
  /\ emitted = << <<startTime, endTime>> >>
  /\ startTime = T0 - 7200000 /\ endTime = T0 - 1800000

C23_MalformedTokenDefaultsToOneHour ==
  [][\A tok \in MalformedTokens :
       handleTimeRangeChange(tok)
         => /\ endTime' = now
            /\ startTime' # NaN
            /\ endTime' - startTime' = HourMs
    ]_vars

\* the values of the points of the visible series
VisibleValues ==
  UNION {{series[i].data[k].value : k \in 1..Len(series[i].data)} :
           i \in {j \in 1..Len(series) : series[j].visible}}

SetMin(S) == CHOOSE v \in S : \A w \in S : v <= w
SetMax(S) == CHOOSE v \in S : \A w \in S : v >= w

\* the aligned table is the one computed from the store of this render
TableCurrent == chartData = AlignEffect(series)

\* the domain handed to the value axis by this render
RenderedDomain == calculateYAxisDomain(chartData, series, yAxisScale)

DomainOfVisibleOnly ==
  calculateYAxisDomain(chartData, VisibleSeries(series), yAxisScale)

\* C25: at scale 100 and for visible points with minimum m and maximum M,
\* the domain is [max(0, m - (M - m)/10), M + (M - m)/10]; the lower bound
\* is not negative when no value is; hidden series do not influence it.
C25_PaddedAndClampedDomain ==
  Settled /\ TableCurrent /\ yAxisScale = 100 /\ VisibleValues # {}
    => LET m == SetMin(VisibleValues)
           M == SetMax(VisibleValues)
           tenth == ((M - m) * Thousandths) \div 10
       IN /\ RenderedDomain =
               <<Max(0, m * Thousandths - tenth), M * Thousandths + tenth>>
          /\ m >= 0 => RenderedDomain[1] >= 0
          /\ RenderedDomain = DomainOfVisibleOnly

\* values 0..20 are shown while a series with 40 is hidden: [0, 22]
C25_Witness ==
  /\ Settled /\ TableCurrent /\ yAxisScale = 100
  /\ lastOp = "handleToggleSeries:hide"
  /\ VisibleValues # {}
  /\ SetMin(VisibleValues) = 0 /\ SetMax(VisibleValues) = 20
  /\ \E i \in 1..Len(series) :
       ~series[i].visible /\ \E k \in 1..Len(series[i].data) :
                               series[i].data[k].value = 40
  /\ RenderedDomain = <<0, 22 * Thousandths>>

\* the domain of this render's table and store at scale 100
UnscaledDomain == calculateYAxisDomain(chartData, series, 100)

C30_NoPointsMeansFallback ==
  mounted /\ Len(series) > 0 /\ VisibleValues = {}
    => RenderedDomain = <<0, 100 * Thousandths>>

\* C27: submitting an empty or all-whitespace query does not call
\* onQuerySubmit, starts no load and leaves the history as it is; submitting
\* a non-blank query calls onQuerySubmit exactly once.
C27_BlankQueryIsRejected ==
  [][QueryInput_handleQuerySubmit
       => IF \A i \in 1..Len(query) : query[i] \in Whitespace
            THEN /\ submitted' = submitted
                 /\ UNCHANGED <<inflight, loadIds, triggersPending, isRefreshing>>
                 /\ queryHistory' = queryHistory
            ELSE submitted' = submitted + 1
    ]_vars

\* a padded query has been submitted after a blank one was rejected: one
\* call, one load, one new history entry
C27_Witness ==
  /\ lastOp = "QueryInput.handleQuerySubmit:submitted"
  /\ query = <<" ", "u", "p">>
  /\ submitted = 1
  /\ Len(inflight) = 1
  /\ queryHistory = <<query>> \o SAMPLE_QUERY_HISTORY

\* the file the export is to write for the store and table of this state:
\* the header, then one line per aligned row, the cell of a visible series
\* being its (last) value at the row's timestamp, or empty
ExpectedCsv ==
  LET vis == [n \in 1..Cardinality(VisibleIdx) |->
                CHOOSE k \in VisibleIdx :
                  Cardinality({j \in VisibleIdx : j < k}) = n - 1]
  IN << << <<"timestamp">> >>
          \o [n \in 1..Len(vis) |-> <<SeriesName(series[vis[n]])>>] >>
       \o [i \in 1..Len(chartData) |->
             << <<formatAbsoluteTime(chartData[i].timestamp)>> >>
               \o [n \in 1..Len(vis) |->
                     IF chartData[i].timestamp \in PointTimes(vis[n])
                       THEN <<series[vis[n]].data[
                                   LastPointAt(vis[n], chartData[i].timestamp)].value>>
                       ELSE << >>]]

\* C28: an export over a non-empty table writes the header "timestamp" and
\* the names of the visible series in store order, then one line per aligned
\* row in ascending timestamp order, with one cell per visible series: its
\* value at that timestamp, or empty.
C28_CsvHeaderAndRows ==
  [][(exportDataCSV \/ exportData) /\ Len(chartData) > 0
       => /\ csvContent' = ExpectedCsv
          /\ \A i \in 1..(Len(chartData) - 1) :
               chartData[i].timestamp < chartData[i + 1].timestamp
    ]_vars

\* C29: a brush event {startIndex, endIndex} with
\* 0 <= startIndex < endIndex < number of rows records the selection
\* [startIndex, endIndex], also when startIndex = 0; applying a recorded
\* selection emits exactly one custom window from the timestamp of the row
\* at startIndex to that of the row at endIndex, clears the selection and
\* leaves brush mode.
C29_BrushSelectionRecordedAndApplied ==
  [][/\ \A a \in 0..(Len(chartData) - 1), b \in 0..(Len(chartData) - 1) :
          a < b /\ handleBrushChangeA(a, b)
            => selectedArea' = [start |-> a, end |-> b]
     /\ handleBrushApply
          /\ 0 <= selectedArea.start
          /\ selectedArea.start < selectedArea.end
          /\ selectedArea.end < Len(chartData)
          => /\ emitted' = << <<RowTime(selectedArea.start),
                                RowTime(selectedArea.end)>> >>
             /\ <<startTime', endTime'>> = emitted'[1]
             /\ timeRange' = Custom
             /\ selectedArea' = NoArea
             /\ ~brushMode'
    ]_vars

\* a pointer-down, pointer-move or pointer-up on the chart
PointerStepC ==
  \/ \E x \in Pixels : handleChartMouseDown(x)
  \/ \E x \in Pixels \cup {NoClientX} : handleChartMouseMove(x)
  \/ handleChartMouseUp

PointerStepD ==
  \/ \E x \in Pixels : handleMouseDown(x)
  \/ \E x \in Pixels : handleMouseMove(x)
  \/ handleMouseUp

\* C31: a pointer-down starts a drag only while zoom mode (pixel-to-time
\* copy) or brush mode (pixel-to-index copy) is active, and outside that
\* mode no pointer-down, move or up changes the drag state or the window,
\* or calls onTimeRangeChange.
C31_PointerGatedByMode ==
  [][/\ PointerStepC /\ ~zoomMode
          => UNCHANGED <<dvars, wvars>> /\ emitted' = << >>
     /\ PointerStepD /\ ~brushMode
          => UNCHANGED <<dragStartRef, zoomArea, wvars>> /\ emitted' = << >>
    ]_vars

\* C32: a pointer-down received while a drag is in progress discards the
\* start and live end of that drag, restarts the drag at the new position
\* and emits no window change, on the pixel-to-time path and on the
\* pixel-to-index path alike.
C32_PointerDownRestartsDrag ==
  [][/\ \A x \in Pixels :
          handleChartMouseDown(x) /\ isSelecting
            => /\ isSelecting'
               /\ selectionStart' = SelectionTimestamp(x)
               /\ selectionEnd' = -1
               /\ UNCHANGED wvars /\ emitted' = << >>
     /\ \A x \in Pixels :
          handleMouseDown(x) /\ dragStartRef # -1
            => /\ dragStartRef' = x
               /\ zoomArea' = [x1 |-> x, x2 |-> -1]
               /\ UNCHANGED wvars /\ emitted' = << >>
    ]_vars

\* the instant pixel x stands for in the window of this state, in units
\* of 1/ChartWidth ms
PixelInstant(x) == startTime * ChartWidth + (endTime - startTime) * x

DragCompletedStep ==
  /\ handleMouseUp
  /\ brushMode /\ dragStartRef # -1
  /\ zoomArea.x1 \in Pixels /\ zoomArea.x2 \in Pixels
  /\ Len(chartData) > 0

\* C34: every completed pixel drag in brush mode with both ends inside the
\* chart, a drag from pixel 0 or to pixel = width included, resolves over a
\* non-empty table to indices with 0 <= startIndex <= endIndex <= rows - 1,
\* so that the rows read for the window exist.
C34_DragIndicesInTable ==
  [][DragCompletedStep
       => /\ 0 <= DragStartIndex /\ DragStartIndex <= DragEndIndex
          /\ DragEndIndex <= Len(chartData) - 1
          /\ lastOp' # "handleMouseUp:TypeError"
    ]_vars

\* C35: a recorded brush selection always holds two valid indices of the
\* current aligned table, also after the table shrank, and Apply never reads
\* a row that does not exist
C35_RecordedBrushInTable ==
  /\ variant = "A" /\ selectedArea.start # -1
       => selectedArea.start < Len(chartData)
  /\ variant = "A" /\ selectedArea.end # -1
       => selectedArea.end < Len(chartData)
  /\ variant = "C" /\ brushSelected # << >>
       => brushSelected[1] < Len(chartData) /\ brushSelected[2] < Len(chartData)
  /\ lastOp # "handleBrushApply:TypeError"

\* C36: in every reachable state whose window mode is a symbolic token R,
\* the initial state included, the stored window width end - start equals
\* duration(R)
C36_WidthMatchesToken ==
  timeRange # Custom
    => endTime - startTime = now - getTimeRangeFromValue(timeRange, now)[1]

\* C37: in every reachable state the active window has start < end, and every
\* window passed to onTimeRangeChange has start < end, whichever path
\* produced it
C37_WindowOrdered ==
  /\ startTime < endTime
  /\ \A i \in DOMAIN emitted : emitted[i][1] < emitted[i][2]

\* C38: on a mounted chart isRefreshing is true exactly while at least one
\* triggered load (refresh or query submission) has not completed, also when
\* loads overlap
C38_RefreshingIffLoadInFlight ==
  mounted => (isRefreshing <=> Len(inflight) > 0)

C40_DomainOrdered ==
  Settled /\ TableCurrent /\ VisibleValues # {}
    => RenderedDomain[1] <= RenderedDomain[2]

====
